---- MODULE Spec2Model ----
(***************************************************************************)
(* Model of the LCCP calculation core of lccp_app.py: the two baseline     *)
(* calculators, the two correction-factor builders and their composition   *)
(* in main().                                                              *)
(*                                                                         *)
(* Numbers.  Python floats are modelled as exact rationals <<n, d>> in     *)
(* lowest terms with d > 0, so the arithmetic below is the real-number     *)
(* arithmetic the code's expressions denote; IEEE-754 rounding (a relative *)
(* error of about 1e-16 per operation) is not modelled.  A division whose  *)
(* divisor is zero is the one float operation that raises in Python        *)
(* (ZeroDivisionError) and is modelled as such.                            *)
(*                                                                         *)
(* Strings.  A Python str is a sequence of one-character strings over a    *)
(* small alphabet holding the characters the code tests for, both letter   *)
(* cases and a whitespace character.                                       *)
(***************************************************************************)
EXTENDS Integers, Sequences, FiniteSets, TLC

VARIABLES pc, inp, frame, out

vars == <<pc, inp, frame, out>>

----------------------------------------------------------------------------
(* Bounds of the model *)

\* longest refrigerant_safety_class string enumerated
MaxSafetyLen == 3
\* longest compressor_type string enumerated
MaxCompLen == 4
\* number of end-to-end computations running concurrently
NThreads == 2

----------------------------------------------------------------------------
(* Program constants, lccp_app.py lines 8-13 *)

DEFAULT_LIFETIME_YEARS == 15
DEFAULT_COOLING_HOURS == 1000
DEFAULT_HEATING_HOURS == 600
EMBODIED_KGCO2_PER_KG_MATERIAL == 5

----------------------------------------------------------------------------
(* Exact rational arithmetic standing for float arithmetic *)

Abs(x) == IF x < 0 THEN -x ELSE x

RECURSIVE GCD(_, _)
GCD(a, b) == IF b = 0 THEN a ELSE GCD(b, a % b)

\* the rational n/d (d # 0) in lowest terms with a positive denominator
R(n, d) ==
    LET g == GCD(Abs(n), Abs(d))
        s == IF d < 0 THEN -1 ELSE 1
    IN  <<s * (n \div g), s * (d \div g)>>

Num(n) == <<n, 1>>
Zero == <<0, 1>>
One == <<1, 1>>

IsZero(a) == a[1] = 0

\* a * b, cross-reduced before multiplying to keep the integers small
Mul(a, b) ==
    LET x == R(a[1], b[2])
        y == R(b[1], a[2])
    IN  <<x[1] * y[1], x[2] * y[2]>>

\* a / b for b # 0
Div(a, b) == Mul(a, R(b[2], b[1]))

Add(a, b) ==
    LET g == GCD(a[2], b[2])
    IN  R(a[1] * (b[2] \div g) + b[1] * (a[2] \div g), (a[2] \div g) * b[2])

Neg(a) == <<-a[1], a[2]>>

Sub(a, b) == Add(a, Neg(b))

\* a < b, by comparing integer parts and then the reciprocals of the
\* fractional parts, so that no cross product is formed
RECURSIVE Less(_, _)
Less(a, b) ==
    LET qa == a[1] \div a[2]
        qb == b[1] \div b[2]
        ra == a[1] % a[2]
        rb == b[1] % b[2]
    IN  IF qa # qb THEN qa < qb
        ELSE IF rb = 0 THEN FALSE
        ELSE IF ra = 0 THEN TRUE
        ELSE Less(<<b[2], rb>>, <<a[2], ra>>)

Leq(a, b) == ~Less(b, a)
Geq(a, b) == ~Less(a, b)

\* Python max(a, b)
Max(a, b) == IF Less(a, b) THEN b ELSE a

----------------------------------------------------------------------------
(* Python str methods used by the correction-factor builders *)

Whitespace == {" "}

LowerChar(c) == CASE c = "V" -> "v" [] c = "A" -> "a" [] c = "R" -> "r"
                  [] c = "L" -> "l" [] OTHER -> c

UpperChar(c) == CASE c = "v" -> "V" [] c = "a" -> "A" [] c = "r" -> "R"
                  [] c = "l" -> "L" [] OTHER -> c

\* str.lower()
Lower(s) == [i \in 1..Len(s) |-> LowerChar(s[i])]

\* str.upper()
Upper(s) == [i \in 1..Len(s) |-> UpperChar(s[i])]

\* str.strip(): drop leading and trailing whitespace
RECURSIVE LStrip(_)
LStrip(s) == IF s # <<>> /\ Head(s) \in Whitespace THEN LStrip(Tail(s)) ELSE s

RECURSIVE RStrip(_)
RStrip(s) ==
    IF s # <<>> /\ s[Len(s)] \in Whitespace
    THEN RStrip(SubSeq(s, 1, Len(s) - 1))
    ELSE s

Strip(s) == RStrip(LStrip(s))

\* str.startswith(p)
StartsWith(s, p) == Len(s) >= Len(p) /\ SubSeq(s, 1, Len(p)) = p

\* p in s
Contains(s, p) ==
    \E i \in 1..(Len(s) - Len(p) + 1) : SubSeq(s, i, i + Len(p) - 1) = p

----------------------------------------------------------------------------
(* calc_baseline_direct, lines 50-74 *)

\* lines 54-60: total_leak_kg
TotalLeakKg(system, lifetime_years) ==
    LET charge == system.refrigerant_charge_kg
        annual_leak_frac == Div(system.annual_leak_rate_pct, Num(100))
        annual_leak_kg == Mul(charge, annual_leak_frac)
    IN  Mul(annual_leak_kg, lifetime_years)

\* RemainingKg without the clamp at zero
RemainingUnclamped(system, total_leak_kg) ==
    Sub(system.refrigerant_charge_kg, total_leak_kg)

\* line 62: remaining_kg
RemainingKg(system, total_leak_kg) ==
    Max(Sub(system.refrigerant_charge_kg, total_leak_kg), Zero)

\* EolLeakKg taking the end-of-life loss of the original charge
EolLeakOfCharge(system, total_leak_kg) ==
    Mul(system.refrigerant_charge_kg, Div(system.eol_loss_pct, Num(100)))

\* lines 56, 62-63: eol_leak_kg
EolLeakKg(system, total_leak_kg) ==
    LET eol_loss_frac == Div(system.eol_loss_pct, Num(100))
    IN  Mul(RemainingKg(system, total_leak_kg), eol_loss_frac)

\* lines 65-74: the returned sum
DirectReturn(system, refrigerant_gwp, embodied_factor, total_leak_kg, eol_leak_kg) ==
    LET charge == system.refrigerant_charge_kg
        refrigerant_emissions == Mul(Add(total_leak_kg, eol_leak_kg), refrigerant_gwp)
        reclaimed_frac == Div(system.reclaimed_refrigerant_pct, Num(100))
        reclaimed_credit ==
            Mul(Mul(Mul(charge, reclaimed_frac), refrigerant_gwp), R(-1, 2))
        embodied == Mul(system.material_weight_kg, embodied_factor)
    IN  Add(Add(refrigerant_emissions, reclaimed_credit), embodied)

calc_baseline_direct(system, refrigerant_gwp, lifetime_years, embodied_factor) ==
    LET total_leak_kg == TotalLeakKg(system, lifetime_years)
        eol_leak_kg == EolLeakKg(system, total_leak_kg)
    IN  DirectReturn(system, refrigerant_gwp, embodied_factor, total_leak_kg, eol_leak_kg)

----------------------------------------------------------------------------
(* calc_baseline_indirect, lines 77-86 *)

\* the outcome of a call: a returned number or a raised exception
Returned(v) == [kind |-> "return", val |-> v]
Raised(e) == [kind |-> e, val |-> <<0, 0>>]

\* PyDiv rejecting every non-positive divisor
PyDivPositive(a, b) ==
    IF Leq(b, Zero) THEN Raised("ZeroDivisionError") ELSE Returned(Div(a, b))

\* a / b as Python evaluates it on floats
PyDiv(a, b) == IF IsZero(b) THEN Raised("ZeroDivisionError") ELSE Returned(Div(a, b))

\* line 81
CoolingKwh(system) ==
    PyDiv(Mul(system.capacity_btuh, Num(DEFAULT_COOLING_HOURS)),
          Mul(system.seer2, Num(1000)))

\* HeatingKwh computed with the cooling hours
HeatingKwhCoolingHours(system) ==
    PyDiv(Mul(system.capacity_btuh, Num(DEFAULT_COOLING_HOURS)),
          Mul(system.hspf2, Num(1000)))

\* line 82
HeatingKwh(system) ==
    PyDiv(Mul(system.capacity_btuh, Num(DEFAULT_HEATING_HOURS)),
          Mul(system.hspf2, Num(1000)))

\* lines 84-86
IndirectReturn(cooling_kwh, heating_kwh, lifetime_years, grid_factor) ==
    LET annual_kwh == Add(cooling_kwh, heating_kwh)
        annual_kgco2 == Mul(annual_kwh, grid_factor)
    IN  Mul(annual_kgco2, lifetime_years)

calc_baseline_indirect(system, lifetime_years, grid_factor) ==
    LET c == CoolingKwh(system)
        h == HeatingKwh(system)
    IN  IF c.kind # "return" THEN c
        ELSE IF h.kind # "return" THEN h
        ELSE Returned(IndirectReturn(c.val, h.val, lifetime_years, grid_factor))

----------------------------------------------------------------------------
(* build_direct_cf, lines 92-122: one operator per if-chain, each taking   *)
(* the accumulator cf_val and returning its new value                      *)

\* DcfReclaimed with strict thresholds
DcfReclaimedStrict(cf, cf_val) ==
    IF Less(Num(50), cf.reclaimed_per_unit_pct) THEN Mul(cf_val, R(9, 10))
    ELSE IF Less(Num(20), cf.reclaimed_per_unit_pct) THEN Mul(cf_val, R(95, 100))
    ELSE cf_val

\* lines 96-99
DcfReclaimed(cf, cf_val) ==
    IF Geq(cf.reclaimed_per_unit_pct, Num(50)) THEN Mul(cf_val, R(9, 10))
    ELSE IF Geq(cf.reclaimed_per_unit_pct, Num(20)) THEN Mul(cf_val, R(95, 100))
    ELSE cf_val

\* lines 102-105
DcfVolume(cf, cf_val) ==
    IF Leq(cf.unit_volume_cuft, Num(6)) THEN Mul(cf_val, R(97, 100))
    ELSE IF Leq(cf.unit_volume_cuft, Num(10)) THEN Mul(cf_val, R(99, 100))
    ELSE cf_val

\* lines 108-109
DcfUsa(cf, cf_val) ==
    IF cf.manufactured_in_usa THEN Mul(cf_val, R(98, 100)) ELSE cf_val

\* DcfLeakDetectors with a factor of 0.80
DcfLeakDetectorsLarger(cf, cf_val) ==
    IF cf.leak_detectors THEN Mul(cf_val, R(80, 100)) ELSE cf_val

\* lines 112-113
DcfLeakDetectors(cf, cf_val) ==
    IF cf.leak_detectors THEN Mul(cf_val, R(95, 100)) ELSE cf_val

\* DcfSafety treating class "2" as "2L"
DcfSafetyPrefix(cf, cf_val) ==
    LET safety == Upper(Strip(cf.refrigerant_safety_class))
    IN  IF StartsWith(safety, <<"2">>) THEN Mul(cf_val, R(995, 1000))
        ELSE IF safety = <<"3">> THEN Mul(cf_val, R(101, 100))
        ELSE cf_val

\* lines 116-120
DcfSafety(cf, cf_val) ==
    LET safety == Upper(Strip(cf.refrigerant_safety_class))
    IN  IF safety = <<"2", "L">> THEN Mul(cf_val, R(995, 1000))
        ELSE IF safety = <<"3">> THEN Mul(cf_val, R(101, 100))
        ELSE cf_val

build_direct_cf(cf) ==
    DcfSafety(cf, DcfLeakDetectors(cf, DcfUsa(cf, DcfVolume(cf, DcfReclaimed(cf, One)))))

----------------------------------------------------------------------------
(* build_indirect_cf, lines 125-142 *)

\* IcfCompressor with independent ifs in place of the elif chain
IcfCompressorIndependent(cf, cf_val) ==
    LET ctype == Strip(Lower(cf.compressor_type))
        a == IF Contains(ctype, <<"2">>) THEN Mul(cf_val, R(95, 100)) ELSE cf_val
    IN  IF Contains(ctype, <<"v", "a", "r">>) THEN Mul(a, R(90, 100)) ELSE a

\* lines 128-134
IcfCompressor(cf, cf_val) ==
    LET ctype == Strip(Lower(cf.compressor_type))
    IN  IF StartsWith(ctype, <<"1">>) THEN Mul(cf_val, R(100, 100))
        ELSE IF Contains(ctype, <<"2">>) THEN Mul(cf_val, R(95, 100))
        ELSE IF Contains(ctype, <<"v", "a", "r">>) THEN Mul(cf_val, R(90, 100))
        ELSE cf_val

\* IcfDemandFlex with a factor of 0.90
IcfDemandFlexLarger(cf, cf_val) ==
    IF cf.demand_flex THEN Mul(cf_val, R(90, 100)) ELSE cf_val

\* lines 136-137
IcfDemandFlex(cf, cf_val) ==
    IF cf.demand_flex THEN Mul(cf_val, R(97, 100)) ELSE cf_val

\* lines 139-140
IcfThermostat(cf, cf_val) ==
    IF cf.connected_thermostat THEN Mul(cf_val, R(98, 100)) ELSE cf_val

build_indirect_cf(cf) ==
    IcfThermostat(cf, IcfDemandFlex(cf, IcfCompressor(cf, One)))

----------------------------------------------------------------------------
(* State.  Each computation t has a position pc[t], the arguments inp[t]   *)
(* it was given, the values out[t] it has received back, and the locals    *)
(* of the call in progress, held in the call frame frame[Slot(t)].  A      *)
(* local is read only after the call has assigned it, so what an earlier   *)
(* call left in the frame is never seen.                                   *)

Threads == 1..NThreads

\* a variable not yet assigned
None == <<0, 0>>

\* every call with one frame for all threads, as if the locals were globals
SharedSlot(t) == 1

\* every call runs on a frame of its own: lines 54-63, 81, 93, 126 assign locals
Slot(t) == t

EmptyFrame ==
    [total_leak_kg |-> None, remaining_kg |-> None, eol_leak_kg |-> None,
     cooling_kwh |-> None, cf_val |-> None]

EmptyOut ==
    [base_direct |-> None, base_indirect |-> None, direct_cf_mult |-> None,
     indirect_cf_mult |-> None, adj_direct |-> None, adj_indirect |-> None,
     total_lccp |-> None, err |-> ""]

\* the form's initial values, lines 154-186
DefaultSystem ==
    [capacity_btuh |-> Num(36000), seer2 |-> Num(15), hspf2 |-> R(85, 10),
     refrigerant_charge_kg |-> Num(3), reclaimed_refrigerant_pct |-> Num(0),
     annual_leak_rate_pct |-> Num(4), eol_loss_pct |-> Num(85),
     material_weight_kg |-> Num(140)]

DefaultDirectCF ==
    [reclaimed_per_unit_pct |-> Num(0), unit_volume_cuft |-> Num(12),
     manufactured_in_usa |-> FALSE, leak_detectors |-> FALSE,
     refrigerant_safety_class |-> <<"1">>]

DefaultIndirectCF ==
    [compressor_type |-> <<"1", "-", "s", "t", "g">>, demand_flex |-> FALSE,
     connected_thermostat |-> FALSE]

DefaultInput ==
    [caller |-> "main", system |-> DefaultSystem,
     lifetime_years |-> Num(DEFAULT_LIFETIME_YEARS), grid_factor |-> R(38, 100),
     refrigerant_gwp |-> Num(675),
     embodied_factor |-> Num(EMBODIED_KGCO2_PER_KG_MATERIAL),
     d_cf_inputs |-> DefaultDirectCF, i_cf_inputs |-> DefaultIndirectCF]

\* where a function returns to: main() goes on to its next statement, a
\* caller that made the one call has its result
After(t, label) == IF inp[t].caller = "main" THEN label ELSE "returned"

SetFrame(t, f) == [frame EXCEPT ![Slot(t)] = f]
Local(t) == frame[Slot(t)]

----------------------------------------------------------------------------
(* calc_baseline_direct, called at lines 215-218 *)

\* lines 54-60
StepTotalLeak(t) ==
    /\ pc[t] = "bd_leak"
    /\ frame' = SetFrame(t, [Local(t) EXCEPT
            !.total_leak_kg = TotalLeakKg(inp[t].system, inp[t].lifetime_years)])
    /\ pc' = [pc EXCEPT ![t] = "bd_eol"]
    /\ UNCHANGED <<inp, out>>

\* lines 62-63
StepEolLeak(t) ==
    /\ pc[t] = "bd_eol"
    /\ frame' = SetFrame(t, [Local(t) EXCEPT
            !.remaining_kg = RemainingKg(inp[t].system, Local(t).total_leak_kg),
            !.eol_leak_kg = EolLeakKg(inp[t].system, Local(t).total_leak_kg)])
    /\ pc' = [pc EXCEPT ![t] = "bd_return"]
    /\ UNCHANGED <<inp, out>>

\* lines 65-74
StepDirectReturn(t) ==
    /\ pc[t] = "bd_return"
    /\ out' = [out EXCEPT ![t].base_direct =
            DirectReturn(inp[t].system, inp[t].refrigerant_gwp, inp[t].embodied_factor,
                         Local(t).total_leak_kg, Local(t).eol_leak_kg)]
    /\ pc' = [pc EXCEPT ![t] = After(t, "bi_cooling")]
    /\ UNCHANGED <<inp, frame>>

----------------------------------------------------------------------------
(* calc_baseline_indirect, called at lines 219-221.  An exception leaves   *)
(* the function and, not being caught anywhere, ends the computation.      *)

\* lines 80-81
StepCooling(t) ==
    /\ pc[t] = "bi_cooling"
    /\ LET r == CoolingKwh(inp[t].system)
       IN  IF r.kind = "return"
           THEN /\ frame' = SetFrame(t, [Local(t) EXCEPT !.cooling_kwh = r.val])
                /\ pc' = [pc EXCEPT ![t] = "bi_heating"]
                /\ out' = out
           ELSE /\ out' = [out EXCEPT ![t].err = r.kind]
                /\ pc' = [pc EXCEPT ![t] = "raised"]
                /\ frame' = frame
    /\ inp' = inp

\* lines 82-86
StepHeating(t) ==
    /\ pc[t] = "bi_heating"
    /\ LET r == HeatingKwh(inp[t].system)
       IN  IF r.kind = "return"
           THEN /\ out' = [out EXCEPT ![t].base_indirect =
                       IndirectReturn(Local(t).cooling_kwh, r.val,
                                      inp[t].lifetime_years, inp[t].grid_factor)]
                /\ pc' = [pc EXCEPT ![t] = After(t, "dcf_reclaimed")]
           ELSE /\ out' = [out EXCEPT ![t].err = r.kind]
                /\ pc' = [pc EXCEPT ![t] = "raised"]
    /\ UNCHANGED <<inp, frame>>

----------------------------------------------------------------------------
(* build_direct_cf, called at line 224 *)

\* lines 93-99
StepReclaimed(t) ==
    /\ pc[t] = "dcf_reclaimed"
    /\ frame' = SetFrame(t, [Local(t) EXCEPT
            !.cf_val = DcfReclaimed(inp[t].d_cf_inputs, One)])
    /\ pc' = [pc EXCEPT ![t] = "dcf_volume"]
    /\ UNCHANGED <<inp, out>>

\* lines 102-105
StepVolume(t) ==
    /\ pc[t] = "dcf_volume"
    /\ frame' = SetFrame(t, [Local(t) EXCEPT
            !.cf_val = DcfVolume(inp[t].d_cf_inputs, Local(t).cf_val)])
    /\ pc' = [pc EXCEPT ![t] = "dcf_usa"]
    /\ UNCHANGED <<inp, out>>

\* lines 108-109
StepUsa(t) ==
    /\ pc[t] = "dcf_usa"
    /\ frame' = SetFrame(t, [Local(t) EXCEPT
            !.cf_val = DcfUsa(inp[t].d_cf_inputs, Local(t).cf_val)])
    /\ pc' = [pc EXCEPT ![t] = "dcf_leak_detectors"]
    /\ UNCHANGED <<inp, out>>

\* lines 112-113
StepLeakDetectors(t) ==
    /\ pc[t] = "dcf_leak_detectors"
    /\ frame' = SetFrame(t, [Local(t) EXCEPT
            !.cf_val = DcfLeakDetectors(inp[t].d_cf_inputs, Local(t).cf_val)])
    /\ pc' = [pc EXCEPT ![t] = "dcf_safety"]
    /\ UNCHANGED <<inp, out>>

\* lines 116-122
StepSafety(t) ==
    /\ pc[t] = "dcf_safety"
    /\ out' = [out EXCEPT ![t].direct_cf_mult =
            DcfSafety(inp[t].d_cf_inputs, Local(t).cf_val)]
    /\ pc' = [pc EXCEPT ![t] = After(t, "icf_compressor")]
    /\ UNCHANGED <<inp, frame>>

----------------------------------------------------------------------------
(* build_indirect_cf, called at line 225 *)

\* lines 126-134
StepCompressor(t) ==
    /\ pc[t] = "icf_compressor"
    /\ frame' = SetFrame(t, [Local(t) EXCEPT
            !.cf_val = IcfCompressor(inp[t].i_cf_inputs, One)])
    /\ pc' = [pc EXCEPT ![t] = "icf_demand_flex"]
    /\ UNCHANGED <<inp, out>>

\* lines 136-137
StepDemandFlex(t) ==
    /\ pc[t] = "icf_demand_flex"
    /\ frame' = SetFrame(t, [Local(t) EXCEPT
            !.cf_val = IcfDemandFlex(inp[t].i_cf_inputs, Local(t).cf_val)])
    /\ pc' = [pc EXCEPT ![t] = "icf_thermostat"]
    /\ UNCHANGED <<inp, out>>

\* lines 139-142
StepThermostat(t) ==
    /\ pc[t] = "icf_thermostat"
    /\ out' = [out EXCEPT ![t].indirect_cf_mult =
            IcfThermostat(inp[t].i_cf_inputs, Local(t).cf_val)]
    /\ pc' = [pc EXCEPT ![t] = After(t, "compose")]
    /\ UNCHANGED <<inp, frame>>

----------------------------------------------------------------------------
(* main(), lines 227-229 *)

Compose(t) ==
    /\ pc[t] = "compose"
    /\ LET adj_direct == Mul(out[t].base_direct, out[t].direct_cf_mult)
           adj_indirect == Mul(out[t].base_indirect, out[t].indirect_cf_mult)
       IN  out' = [out EXCEPT ![t].adj_direct = adj_direct,
                              ![t].adj_indirect = adj_indirect,
                              ![t].total_lccp = Add(adj_direct, adj_indirect)]
    /\ pc' = [pc EXCEPT ![t] = "done"]
    /\ UNCHANGED <<inp, frame>>

----------------------------------------------------------------------------
(* Arguments enumerated.  The numeric fields are floats (or ints) the      *)
(* caller chooses; the values below sit on, between and beyond every       *)
(* threshold the code compares against.                                    *)

\* Python strings of at most n characters over alphabet A
StringsUpTo(A, n) == UNION {[1..k -> A] : k \in 0..n}

SafetyAlphabet == {"1", "2", "3", "L", "l", " "}
CompressorAlphabet == {"1", "2", "v", "a", "r", "V", " "}

DirectSystems ==
    {[DefaultSystem EXCEPT !.refrigerant_charge_kg = c,
                           !.reclaimed_refrigerant_pct = Num(r),
                           !.annual_leak_rate_pct = Num(a),
                           !.eol_loss_pct = Num(e)] :
        c \in {Num(0), R(1, 10), Num(3), Num(15)},
        r \in {0, 50, 100}, a \in {0, 4, 5, 30}, e \in {0, 85, 100}}

DirectCalls ==
    {[DefaultInput EXCEPT !.caller = "call", !.system = s,
                          !.lifetime_years = Num(l), !.refrigerant_gwp = Num(g)] :
        s \in DirectSystems, l \in {0, 10, 15, 20, 25}, g \in {1, 675}}

IndirectSystems ==
    {[DefaultSystem EXCEPT !.capacity_btuh = Num(c), !.seer2 = s, !.hspf2 = h] :
        c \in {9000, 36000},
        s \in {Num(-15), Num(0), Num(8), Num(15)},
        h \in {R(-85, 10), Num(0), Num(5), R(85, 10)}}

IndirectCalls ==
    {[DefaultInput EXCEPT !.caller = "call", !.system = s,
                          !.lifetime_years = Num(l), !.grid_factor = g] :
        s \in IndirectSystems, l \in {10, 15, 25}, g \in {R(1, 10), R(38, 100)}}

DirectCFs ==
    {[reclaimed_per_unit_pct |-> Num(p), unit_volume_cuft |-> v,
      manufactured_in_usa |-> u, leak_detectors |-> d,
      refrigerant_safety_class |-> c] :
        p \in {0, 20, 49, 50, 100},
        v \in {Num(1), Num(6), R(13, 2), Num(10), Num(50)},
        u \in BOOLEAN, d \in BOOLEAN,
        c \in StringsUpTo(SafetyAlphabet, MaxSafetyLen)}

DirectCFCalls ==
    {[DefaultInput EXCEPT !.caller = "call", !.d_cf_inputs = cf] : cf \in DirectCFs}

IndirectCFs ==
    {[compressor_type |-> c, demand_flex |-> f, connected_thermostat |-> k] :
        c \in StringsUpTo(CompressorAlphabet, MaxCompLen),
        f \in BOOLEAN, k \in BOOLEAN}

IndirectCFCalls ==
    {[DefaultInput EXCEPT !.caller = "call", !.i_cf_inputs = cf] : cf \in IndirectCFs}

\* complete input sets for main(): the form's defaults, a set that differs
\* from them in every field, and the defaults with an HSPF2 of zero
Scenarios ==
    { DefaultInput,
      [DefaultInput EXCEPT
          !.system = [capacity_btuh |-> Num(9000), seer2 |-> Num(8), hspf2 |-> Num(5),
                      refrigerant_charge_kg |-> Num(15),
                      reclaimed_refrigerant_pct |-> Num(50),
                      annual_leak_rate_pct |-> Num(30), eol_loss_pct |-> Num(100),
                      material_weight_kg |-> Num(10)],
          !.lifetime_years = Num(25), !.grid_factor = R(1, 10),
          !.refrigerant_gwp = Num(1), !.embodied_factor = Num(1),
          !.d_cf_inputs = [reclaimed_per_unit_pct |-> Num(50),
                           unit_volume_cuft |-> Num(50),
                           manufactured_in_usa |-> FALSE, leak_detectors |-> FALSE,
                           refrigerant_safety_class |-> <<"3">>],
          !.i_cf_inputs = [compressor_type |-> <<"v", "a", "r">>,
                           demand_flex |-> TRUE, connected_thermostat |-> TRUE]],
      [DefaultInput EXCEPT !.system = [DefaultSystem EXCEPT !.hspf2 = Num(0)]] }

----------------------------------------------------------------------------
(* Specifications *)

\* one caller makes one call of the function entered at `entry`
InitCall(calls, entry) ==
    /\ \E c \in calls : inp = [t \in Threads |-> IF t = 1 THEN c ELSE DefaultInput]
    /\ pc = [t \in Threads |-> IF t = 1 THEN entry ELSE "idle"]
    /\ frame = [t \in Threads |-> EmptyFrame]
    /\ out = [t \in Threads |-> EmptyOut]

InitBaselineDirect == InitCall(DirectCalls, "bd_leak")
InitBaselineIndirect == InitCall(IndirectCalls, "bi_cooling")
InitCorrectionFactors ==
    \/ InitCall(DirectCFCalls, "dcf_reclaimed")
    \/ InitCall(IndirectCFCalls, "icf_compressor")

\* every thread runs lines 214-229 of main() on an input set of its own
InitMain ==
    /\ inp \in [Threads -> Scenarios]
    /\ pc = [t \in Threads |-> "bd_leak"]
    /\ frame = [t \in Threads |-> EmptyFrame]
    /\ out = [t \in Threads |-> EmptyOut]

NextBaselineDirect ==
    \E t \in Threads : StepTotalLeak(t) \/ StepEolLeak(t) \/ StepDirectReturn(t)

NextBaselineIndirect ==
    \E t \in Threads : StepCooling(t) \/ StepHeating(t)

NextCorrectionFactors ==
    \E t \in Threads :
        \/ StepReclaimed(t) \/ StepVolume(t) \/ StepUsa(t)
        \/ StepLeakDetectors(t) \/ StepSafety(t)
        \/ StepCompressor(t) \/ StepDemandFlex(t) \/ StepThermostat(t)

NextMain ==
    \E t \in Threads :
        \/ StepTotalLeak(t) \/ StepEolLeak(t) \/ StepDirectReturn(t)
        \/ StepCooling(t) \/ StepHeating(t)
        \/ StepReclaimed(t) \/ StepVolume(t) \/ StepUsa(t)
        \/ StepLeakDetectors(t) \/ StepSafety(t)
        \/ StepCompressor(t) \/ StepDemandFlex(t) \/ StepThermostat(t)
        \/ Compose(t)

SpecBaselineDirect == InitBaselineDirect /\ [][NextBaselineDirect]_vars
SpecBaselineIndirect == InitBaselineIndirect /\ [][NextBaselineIndirect]_vars
SpecCorrectionFactors == InitCorrectionFactors /\ [][NextCorrectionFactors]_vars
SpecMain == InitMain /\ [][NextMain]_vars

----------------------------------------------------------------------------
(* The run-alone reference: what one end-to-end computation returns when   *)
(* nothing else runs, lines 215-229 evaluated in order                     *)

RunAlone(i) ==
    LET bd == calc_baseline_direct(i.system, i.refrigerant_gwp, i.lifetime_years,
                                   i.embodied_factor)
        bi == calc_baseline_indirect(i.system, i.lifetime_years, i.grid_factor)
        dm == build_direct_cf(i.d_cf_inputs)
        im == build_indirect_cf(i.i_cf_inputs)
    IN  IF bi.kind # "return"
        THEN [EmptyOut EXCEPT !.base_direct = bd, !.err = bi.kind]
        ELSE [base_direct |-> bd, base_indirect |-> bi.val,
              direct_cf_mult |-> dm, indirect_cf_mult |-> im,
              adj_direct |-> Mul(bd, dm), adj_indirect |-> Mul(bi.val, im),
              total_lccp |-> Add(Mul(bd, dm), Mul(bi.val, im)), err |-> ""]

----------------------------------------------------------------------------
(* Properties *)

\* |a - b| <= tol
Within(a, b, tol) == Leq(Sub(a, b), tol) /\ Leq(Sub(b, a), tol)

IndirectReturned(t) == pc[t] = "returned" /\ out[t].base_indirect # None
DirectCFReturned(t) == pc[t] = "returned" /\ out[t].direct_cf_mult # None
IndirectCFReturned(t) == pc[t] = "returned" /\ out[t].indirect_cf_mult # None
\* calc_baseline_direct has assigned eol_leak_kg (line 63)
AfterEol(t) == pc[t] = "bd_return"

\* the end-to-end scenario's arguments of calc_baseline_indirect
AtScenario(t) ==
    /\ inp[t].system.capacity_btuh = Num(36000)
    /\ inp[t].system.seer2 = Num(15)
    /\ inp[t].system.hspf2 = R(85, 10)
    /\ inp[t].lifetime_years = Num(15)
    /\ inp[t].grid_factor = R(38, 100)

\* C1 as stated: for capacity 36000, SEER2 15.0, HSPF2 8.5, lifetime 15 and
\* grid factor 0.38, calc_baseline_indirect returns a value within 0.1 of
\* 28,184.7.
C1_Original ==
    \A t \in Threads :
        IndirectReturned(t) /\ AtScenario(t)
            => Within(out[t].base_indirect, R(281847, 10), R(1, 10))

\* C1 amended: for the same arguments calc_baseline_indirect returns a value
\* within 0.1 of 28,164.7, which is (2400 + 2541.18) * 0.38 * 15.
C1_Amended ==
    \A t \in Threads :
        IndirectReturned(t) /\ AtScenario(t)
            => Within(out[t].base_indirect, R(281647, 10), R(1, 10))

C1_Witness == \E t \in Threads : IndirectReturned(t) /\ AtScenario(t)

\* C2 as stated: the multiplier build_direct_cf returns lies between 0.85
\* and 1.02 for every input.
C2_Original ==
    \A t \in Threads :
        DirectCFReturned(t)
            => /\ Leq(R(85, 100), out[t].direct_cf_mult)
               /\ Leq(out[t].direct_cf_mult, R(102, 100))

\* C2 amended: the multiplier build_direct_cf returns lies between 0.80 and
\* 1.02 for every input (all five reductions together give about 0.8087).
C2_Amended ==
    \A t \in Threads :
        DirectCFReturned(t)
            => /\ Leq(R(80, 100), out[t].direct_cf_mult)
               /\ Leq(out[t].direct_cf_mult, R(102, 100))

\* every reducing feature present: the multiplier is below 0.85
C2_Witness ==
    \E t \in Threads :
        /\ DirectCFReturned(t)
        /\ Geq(inp[t].d_cf_inputs.reclaimed_per_unit_pct, Num(50))
        /\ Leq(inp[t].d_cf_inputs.unit_volume_cuft, Num(6))
        /\ inp[t].d_cf_inputs.manufactured_in_usa
        /\ inp[t].d_cf_inputs.leak_detectors
        /\ inp[t].d_cf_inputs.refrigerant_safety_class = <<" ", "2", "l">>
        /\ Less(out[t].direct_cf_mult, R(85, 100))

\* C3: the multiplier build_indirect_cf returns lies between 0.84 and 1.00
\* for every compressor_type string and both values of each flag.
C3_IndirectRange ==
    \A t \in Threads :
        IndirectCFReturned(t)
            => /\ Leq(R(84, 100), out[t].indirect_cf_mult)
               /\ Leq(out[t].indirect_cf_mult, One)

\* the smallest multiplier: variable-speed compressor and both flags
C3_Witness ==
    \E t \in Threads :
        /\ IndirectCFReturned(t)
        /\ inp[t].i_cf_inputs.compressor_type = <<"V", "a", "r">>
        /\ inp[t].i_cf_inputs.demand_flex
        /\ inp[t].i_cf_inputs.connected_thermostat
        /\ out[t].indirect_cf_mult = R(85554, 100000)

\* C4 as stated: calc_baseline_indirect ends in an error exactly when seer2
\* or hspf2 is non-positive, and returns a number only when both are
\* strictly positive.
C4_Original ==
    \A t \in Threads :
        pc[t] \in {"returned", "raised"}
            => (pc[t] = "raised"
                  <=> \/ Leq(inp[t].system.seer2, Zero)
                      \/ Leq(inp[t].system.hspf2, Zero))

\* C4 amended: calc_baseline_indirect ends in an error (ZeroDivisionError,
\* no value returned) exactly when seer2 or hspf2 is zero; for every other
\* rating, negative ones included, it returns a number.
C4_Amended ==
    \A t \in Threads :
        pc[t] \in {"returned", "raised"}
            => /\ pc[t] = "raised"
                    <=> IsZero(inp[t].system.seer2) \/ IsZero(inp[t].system.hspf2)
               /\ pc[t] = "raised"
                    => out[t].err = "ZeroDivisionError" /\ out[t].base_indirect = None
               /\ pc[t] = "returned"
                    => out[t].err = "" /\ out[t].base_indirect # None

\* a negative SEER2 passes line 81 and a zero HSPF2 raises at line 82
C4_Witness ==
    \E t \in Threads :
        /\ pc[t] = "raised"
        /\ Less(inp[t].system.seer2, Zero)
        /\ IsZero(inp[t].system.hspf2)

\* C5: in calc_baseline_direct, for non-negative charge, leak rate, loss
\* percentage and lifetime, remaining_kg is never negative; it is zero, and
\* eol_leak_kg with it, whenever total_leak_kg >= charge; and with a leak
\* rate of 0, total_leak_kg = 0 and eol_leak_kg = charge * eol_loss_pct/100.
C5_RemainingClamped ==
    \A t \in Threads :
        AfterEol(t)
            => LET f == Local(t)
                   charge == inp[t].system.refrigerant_charge_kg
               IN  /\ Geq(f.remaining_kg, Zero)
                   /\ Geq(f.total_leak_kg, charge)
                        => f.remaining_kg = Zero /\ f.eol_leak_kg = Zero
                   /\ IsZero(inp[t].system.annual_leak_rate_pct)
                        => /\ f.total_leak_kg = Zero
                           /\ f.eol_leak_kg =
                                Div(Mul(charge, inp[t].system.eol_loss_pct), Num(100))

\* the leak total exceeds a positive charge and a loss percentage is set
C5_Witness ==
    \E t \in Threads :
        /\ AfterEol(t)
        /\ Less(Zero, inp[t].system.refrigerant_charge_kg)
        /\ Less(Zero, inp[t].system.eol_loss_pct)
        /\ Less(inp[t].system.refrigerant_charge_kg, Local(t).total_leak_kg)
        /\ Local(t).remaining_kg = Zero

\* the factor the two flags of build_indirect_cf contribute
FlagFactor(cf) ==
    Mul(IF cf.demand_flex THEN R(97, 100) ELSE One,
        IF cf.connected_thermostat THEN R(98, 100) ELSE One)

\* C6: build_indirect_cf applies exactly one compressor adjustment, the first
\* that matches the lowercased, trimmed compressor_type in the order
\* starts-with-"1" (x1.00), contains-"2" (x0.95), contains-"var" (x0.90): a
\* string starting with "1" is not reduced even if it contains "2" or "var",
\* and one containing both "2" and "var" gets x0.95 alone.
C6_FirstMatchWins ==
    \A t \in Threads :
        IndirectCFReturned(t)
            => LET cf == inp[t].i_cf_inputs
                   ctype == Strip(Lower(cf.compressor_type))
                   one == ctype # <<>> /\ ctype[1] = "1"
                   two == \E i \in 1..Len(ctype) : ctype[i] = "2"
                   var == \E i \in 1..(Len(ctype) - 2) :
                             ctype[i] = "v" /\ ctype[i + 1] = "a" /\ ctype[i + 2] = "r"
                   m == out[t].indirect_cf_mult
               IN  /\ one => m = FlagFactor(cf)
                   /\ ~one /\ two => m = Mul(R(95, 100), FlagFactor(cf))
                   /\ ~one /\ ~two /\ var => m = Mul(R(90, 100), FlagFactor(cf))

\* a type holding both "2" and "var" and not starting with "1"
C6_Witness ==
    \E t \in Threads :
        /\ IndirectCFReturned(t)
        /\ inp[t].i_cf_inputs.compressor_type = <<"V", "a", "r", "2">>
        /\ out[t].indirect_cf_mult = Mul(R(95, 100), FlagFactor(inp[t].i_cf_inputs))

\* C7: in build_direct_cf the tiers are inclusive and the first match wins:
\* pct >= 50 contributes x0.90 alone, 20 <= pct < 50 x0.95, pct < 20 x1;
\* volume <= 6 contributes x0.97 alone, 6 < volume <= 10 x0.99, volume > 10
\* x1.  So pct = 50 is in the 0.90 tier, pct = 20 in the 0.95 tier, volume = 6
\* in the 0.97 tier and volume = 10 in the 0.99 tier.
C7_InclusiveTiers ==
    \A t \in Threads :
        DirectCFReturned(t)
            => LET cf == inp[t].d_cf_inputs
                   pct == cf.reclaimed_per_unit_pct
                   vol == cf.unit_volume_cuft
                   tierPct == IF Geq(pct, Num(50)) THEN R(90, 100)
                              ELSE IF Geq(pct, Num(20)) /\ Less(pct, Num(50))
                                   THEN R(95, 100) ELSE One
                   tierVol == IF Leq(vol, Num(6)) THEN R(97, 100)
                              ELSE IF Less(Num(6), vol) /\ Leq(vol, Num(10))
                                   THEN R(99, 100) ELSE One
                   rest == DcfSafety(cf, DcfLeakDetectors(cf, DcfUsa(cf, One)))
               IN  /\ out[t].direct_cf_mult = Mul(Mul(tierPct, tierVol), rest)
                   /\ pct = Num(50) => tierPct = R(90, 100)
                   /\ pct = Num(20) => tierPct = R(95, 100)
                   /\ vol = Num(6) => tierVol = R(97, 100)
                   /\ vol = Num(10) => tierVol = R(99, 100)

\* both thresholds met exactly, nothing else adjusting
C7_Witness ==
    \E t \in Threads :
        /\ DirectCFReturned(t)
        /\ inp[t].d_cf_inputs.reclaimed_per_unit_pct = Num(50)
        /\ inp[t].d_cf_inputs.unit_volume_cuft = Num(6)
        /\ ~inp[t].d_cf_inputs.manufactured_in_usa
        /\ ~inp[t].d_cf_inputs.leak_detectors
        /\ inp[t].d_cf_inputs.refrigerant_safety_class = <<"1">>
        /\ out[t].direct_cf_mult = R(873, 1000)

\* C8: an unrecognized string is no error and adjusts nothing.  A safety
\* class that trimmed and uppercased is neither "2L" nor "3", and a
\* compressor type matching none of the three patterns, contribute a factor
\* of exactly 1; with the other features at their non-adjusting values
\* (reclaimed 0, volume 50, flags false) the result is exactly 1.0.
C8_UnrecognizedNoAdjustment ==
    \A t \in Threads :
        /\ pc[t] # "raised" /\ out[t].err = ""
        /\ DirectCFReturned(t)
             => LET cf == inp[t].d_cf_inputs
                    safety == Upper(Strip(cf.refrigerant_safety_class))
                IN  safety \notin {<<"2", "L">>, <<"3">>}
                      => /\ out[t].direct_cf_mult =
                              DcfLeakDetectors(cf, DcfUsa(cf,
                                  DcfVolume(cf, DcfReclaimed(cf, One))))
                         /\ /\ cf.reclaimed_per_unit_pct = Num(0)
                            /\ cf.unit_volume_cuft = Num(50)
                            /\ ~cf.manufactured_in_usa /\ ~cf.leak_detectors
                            => out[t].direct_cf_mult = One
        /\ IndirectCFReturned(t)
             => LET cf == inp[t].i_cf_inputs
                    ctype == Strip(Lower(cf.compressor_type))
                IN  /\ ~StartsWith(ctype, <<"1">>)
                    /\ ~Contains(ctype, <<"2">>)
                    /\ ~Contains(ctype, <<"v", "a", "r">>)
                    => /\ out[t].indirect_cf_mult = FlagFactor(cf)
                       /\ ~cf.demand_flex /\ ~cf.connected_thermostat
                            => out[t].indirect_cf_mult = One

\* class "2", which only starts like "2L", with everything else neutral
C8_Witness ==
    \E t \in Threads :
        /\ DirectCFReturned(t)
        /\ inp[t].d_cf_inputs.refrigerant_safety_class = <<" ", "2">>
        /\ inp[t].d_cf_inputs.reclaimed_per_unit_pct = Num(0)
        /\ inp[t].d_cf_inputs.unit_volume_cuft = Num(50)
        /\ ~inp[t].d_cf_inputs.manufactured_in_usa
        /\ ~inp[t].d_cf_inputs.leak_detectors
        /\ out[t].direct_cf_mult = One

\* an unrecognized compressor type with both flags off returns 1.0
C8_WitnessCompressor ==
    \E t \in Threads :
        /\ IndirectCFReturned(t)
        /\ inp[t].i_cf_inputs.compressor_type = <<"v", "a", " ", "r">>
        /\ ~inp[t].i_cf_inputs.demand_flex
        /\ ~inp[t].i_cf_inputs.connected_thermostat
        /\ out[t].indirect_cf_mult = One

\* every output a computation has received so far is the run-alone output
OutputsAsAlone ==
    \A t \in Threads :
        LET alone == RunAlone(inp[t])
        IN  /\ \A k \in DOMAIN EmptyOut : out[t][k] \in {EmptyOut[k], alone[k]}
            /\ pc[t] \in {"done", "raised"} => out[t] = alone

\* C9: end-to-end computations (the two baselines, the two multipliers, then
\* total = base_direct*direct_cf + base_indirect*indirect_cf) running
\* concurrently in any interleaving on input sets of their own each produce
\* exactly the outputs they produce when run alone, and no step of any of
\* them changes an input record.
C9_ConcurrentAsAlone == []OutputsAsAlone /\ [][inp' = inp]_vars

\* two computations on different inputs have both finished, with
\* different totals
C9_Witness ==
    /\ pc[1] = "done" /\ pc[2] = "done"
    /\ inp[1] # inp[2]
    /\ out[1].total_lccp # out[2].total_lccp
    /\ out[1] = RunAlone(inp[1]) /\ out[2] = RunAlone(inp[2])

\* C10's precondition: non-negative charge, eol_loss_pct in [0,100] and
\* annual_leak_rate_pct * lifetime_years <= 100
MassPrecondition(t) ==
    /\ Geq(inp[t].system.refrigerant_charge_kg, Zero)
    /\ Geq(inp[t].system.eol_loss_pct, Zero)
    /\ Leq(inp[t].system.eol_loss_pct, Num(100))
    /\ Leq(Mul(inp[t].system.annual_leak_rate_pct, inp[t].lifetime_years), Num(100))

C10_BeyondPrecondition ==
    \E t \in Threads :
        /\ AfterEol(t) /\ ~MassPrecondition(t)
        /\ Less(inp[t].system.refrigerant_charge_kg,
                Add(Local(t).total_leak_kg, Local(t).eol_leak_kg))

====
